---- MODULE Spec2Model ----
(***************************************************************************)
(* A model of logge-rs (src/src/lib.rs): the global sink LOGGER, a Logger  *)
(* whose Mutex guards one LoggerOptions {writer, enabled}, the builder     *)
(* LoggerOptions::{default, set_writer, set_enabled, start}, and the       *)
(* log::Log implementation Logger::{enabled, log, flush}.                  *)
(*                                                                         *)
(* Text is a sequence of one-character strings; an ANSI escape sequence of *)
(* the colored crate is one element ("ESC[31m").  The facade (crate log)   *)
(* is reduced to what lib.rs uses of it: the registration slot written by  *)
(* log::set_logger and the level filter read by log::max_level.            *)
(***************************************************************************)
EXTENDS Integers, Sequences, FiniteSets, TLC

\* ---------------------------------------------------------------- bounds
NThreads == 2
MaxEmits == 2
MaxStarts == 2
MaxSetters == 2
MaxClock == 1

Threads == 1..NThreads

\* ---------------------------------------------------------------- levels
\* log::Level: Error = 1 .. Trace = 5; log::LevelFilter adds Off = 0.
Levels == 1..5
LevelFilters == 0..5

\* record.level().to_string(): the facade's upper-case level names.
LevelName(l) ==
  CASE l = 1 -> <<"E", "R", "R", "O", "R">>
    [] l = 2 -> <<"W", "A", "R", "N">>
    [] l = 3 -> <<"I", "N", "F", "O">>
    [] l = 4 -> <<"D", "E", "B", "U", "G">>
    [] l = 5 -> <<"T", "R", "A", "C", "E">>

\* The colour chosen by the match on record.level().
LevelStyle(l) ==
  CASE l = 1 -> "ESC[31m"
    [] l = 2 -> "ESC[33m"
    [] l = 3 -> "ESC[32m"
    [] l = 4 -> "ESC[37m"
    [] l = 5 -> "ESC[90m"

\* .bold().bright_black() on the timestamp.
TimeStyle == "ESC[1;90m"
ResetStyle == "ESC[0m"
Escapes == {TimeStyle, ResetStyle} \cup {LevelStyle(l) : l \in Levels}

\* ---------------------------------------------------------------- inputs
\* Destinations a caller can box as the writer.  "stderr" and "buf" accept
\* every write; a write on "full" may return an io::Error, a write on
\* "broken" may panic.
Dests == {"stderr", "buf", "full", "broken"}

\* Predicates a caller can box as the enablement predicate.  "maxlevel" is
\* the default closure, "always" admits everything, "partial" is a closure
\* that panics on Trace metadata and admits the rest.
Preds == {"maxlevel", "always", "partial"}

\* What the facade asks of the sink: Logger::enabled or Logger::log.
Kinds == {"enabled", "log"}

\* Logger::flush takes no event.
NoEvent == [level |-> 0, target |-> <<>>, msg |-> <<>>]

\* Events handed to the sink: level, target and pre-formatted message.
Events ==
  { [level |-> 1, target |-> <<"a">>, msg |-> <<"b", "o", "o", "m">>],
    [level |-> 2, target |-> <<"a", ":", ":", "d">>, msg |-> <<"[", "x", "]">>],
    [level |-> 3, target |-> <<"a", ":", ":", "d">>, msg |-> <<"u", "p">>],
    [level |-> 4, target |-> <<>>, msg |-> <<"d", " ", "-", " ", "e">>],
    [level |-> 5, target |-> <<"t">>, msg |-> <<>>] }

\* ---------------------------------------------------------------- state
VARIABLES
  inner,       \* LOGGER.inner: the LoggerOptions guarded by the Mutex
  holder,      \* thread holding the MutexGuard, 0 when the lock is free
  poisoned,    \* the Mutex's poison flag
  registered,  \* the facade's logger slot holds &*LOGGER
  maxLevel,    \* the facade's log::max_level()
  colorize,    \* colored's decision to emit ANSI sequences in this process
  clock,       \* the latest reading of chrono::Utc::now()
  out,         \* content of every destination: sequence of [id, c]
  pc,          \* position of every thread
  cur,         \* index in calls[t] of the call thread t is executing, 0 if none
  pos,         \* next piece a thread writes during its write step
  opt,         \* the LoggerOptions value a thread is building
  chain,       \* history: builder calls applied to opt since default()
  calls,       \* history: the enabled/log calls every thread made on the sink
  started,     \* history: the LoggerOptions moved into LOGGER, in swap order
  returned,    \* history: number of start() calls that returned
  built        \* number of LoggerOptions values constructed

vars == <<inner, holder, poisoned, registered, maxLevel, colorize, clock, out,
          pc, cur, pos, opt, chain, calls, started, returned, built>>

\* ---------------------------------------------------------------- builder
\* LoggerOptions::default()
DefaultOptions == [writer |-> "stderr", enabled |-> "maxlevel"]

\* The absence of a LoggerOptions value (moved out or not yet built).
NoOptions == [writer |-> "none", enabled |-> "none"]

\* LoggerOptions::set_writer
set_writer_once(self, writer) ==
  IF self.writer = "stderr" THEN [self EXCEPT !.writer = writer] ELSE self
set_writer(self, writer) == [self EXCEPT !.writer = writer]

\* LoggerOptions::set_enabled
set_enabled_fresh(self, enabled) == [DefaultOptions EXCEPT !.enabled = enabled]
set_enabled(self, enabled) == [self EXCEPT !.enabled = enabled]

\* ---------------------------------------------------------------- predicate
\* metadata.level() <= log::max_level()
LevelAtLeast(level, filter) == level >= filter
LevelAtMost(level, filter) == level <= filter

\* (inner.enabled)(metadata): "true", "false" or "panic".
PredOutcome(p, ev, max) ==
  CASE p = "maxlevel" -> IF LevelAtMost(ev.level, max) THEN "true" ELSE "false"
    [] p = "always" -> "true"
    [] p = "partial" -> IF ev.level = 5 THEN "panic" ELSE "true"

\* ---------------------------------------------------------------- format
Digits == <<"0", "1", "2", "3", "4", "5", "6", "7", "8", "9">>

\* now.format("%F %T").to_string(), one reading of the clock per text.
TimeText(ts) == <<"T", Digits[ts + 1]>>

\* Formatter padding of {:5}: left-aligned, filled with spaces, no truncation.
PadNone(s, width) == s
RECURSIVE Pad(_, _)
Pad(s, width) == IF Len(s) >= width THEN s ELSE Pad(s \o <<" ">>, width)

\* Display of a ColoredString under a width: the style, the padded text and
\* the reset; without colours the padded text alone.
ColoredText(style, text, width) ==
  IF colorize THEN <<style>> \o Pad(text, width) \o <<ResetStyle>>
  ELSE Pad(text, width)

\* The same without the line terminator at the end of the format string.
PiecesUnterminated(ev, ts) ==
  << <<"[">>,
     ColoredText(TimeStyle, TimeText(ts), 0),
     <<"]", " ">>,
     ColoredText(LevelStyle(ev.level), LevelName(ev.level), 5),
     <<" ", "[">>,
     ev.target,
     <<"]", " ", "-", " ">>,
     ev.msg >>

\* What write_fmt hands to the writer for "[{}] {:5} [{}] - {}\n": the
\* literal pieces of the format string and the four arguments, in order.
Pieces(ev, ts) ==
  << <<"[">>,
     ColoredText(TimeStyle, TimeText(ts), 0),
     <<"]", " ">>,
     ColoredText(LevelStyle(ev.level), LevelName(ev.level), 5),
     <<" ", "[">>,
     ev.target,
     <<"]", " ", "-", " ">>,
     ev.msg,
     <<"\n">> >>

RECURSIVE Flatten(_)
Flatten(ss) == IF ss = <<>> THEN <<>> ELSE Head(ss) \o Flatten(Tail(ss))

\* ---------------------------------------------------------------- writer
\* Result of one write on a destination.
WriteOutcomes(d) ==
  CASE d = "full" -> {"ok", "err"}
    [] d = "broken" -> {"ok", "panic"}
    [] OTHER -> {"ok"}

\* Write::write on a destination: the bytes follow what it already holds.
Prepended(old, new) == new \o old
Appended(old, new) == old \o new

\* `guard.writer`: the destination log() writes to is the one of the value
\* it finds under the lock.
WriterStderr(guarded) == "stderr"
Writer(guarded) == guarded.writer

\* `let _ = write!(..)`: what log() does with the io::Result.
Unwrapped(result) == IF result = "err" THEN "panic" ELSE "return"
Discard(result) == "return"

\* `if self.enabled(record.metadata())`: log() goes on when the check is true.
ProceedsAlways(res) == res \in {"true", "false"}
Proceeds(res) == res = "true"

\* ---------------------------------------------------------------- lock
\* Mutex::lock: the caller goes on only when no thread holds the guard.
CanLockAlways(h) == h = h
CanLock(h) == h = 0

\* Drop of the MutexGuard at the end of the statement that took it, or in
\* the unwinding of a panic: the lock is free again.
GuardKept(h) == h
GuardDropped(h) == 0

\* `.lock().unwrap()`: a poisoned Mutex makes lock() return an error and
\* the unwrap panic; otherwise the caller holds the guard.
LockRecovered(p) == "guard"
LockUnwrap(p) == IF p THEN "panic" ELSE "guard"

\* ---------------------------------------------------------------- start
\* `*guard = self`: the whole value replaces the guarded one.
InstallNothing(self, old) == old
InstallOnce(self, old) == IF old = DefaultOptions THEN self ELSE old
InstallWriterOnly(self, old) == [old EXCEPT !.writer = self.writer]
Install(self, old) == self

\* The two statements of start() in order: where a thread goes after
\* entering start(), after the swap and after the registration.
StartFlowRegisterFirst(at) ==
  CASE at = "call" -> "register"
    [] at = "register" -> "start_lock"
    [] at = "swap" -> "return"
StartFlow(at) ==
  CASE at = "call" -> "start_lock"
    [] at = "swap" -> "register"
    [] at = "register" -> "return"

\* `.unwrap()` on the Result of log::set_logger.
IgnoreSetLogger(result) == "return"
UnwrapSetLogger(result) == IF result = "err" THEN "panic" ELSE "return"

\* log::set_logger: succeeds once per process.
SetLogger(reg) == IF reg THEN "err" ELSE "ok"

\* ---------------------------------------------------------------- flush
\* `fn flush(&self) {}`: the sink (guarded value, guard, poison flag and
\* destinations) as thread t's flush leaves it.
flush_locking(self, t) == [self EXCEPT !.holder = t]
flush(self, t) == self

\* ---------------------------------------------------------------- init
\* The record of one call on the sink.  res is the predicate's answer; for a
\* flush it tells whether a thread held the guard while flush ran.  turn
\* numbers the acquisitions of the lock for a write step, in their order.
NewCall(kind, ev) ==
  [kind |-> kind, ev |-> ev, res |-> "none", ts |-> 0, wres |-> "none",
   checkGen |-> 0, dest |-> "none", writeGen |-> 0, turn |-> 0]

Init ==
  /\ inner = DefaultOptions
  /\ holder = 0
  /\ poisoned = FALSE
  /\ registered = FALSE
  /\ maxLevel = 0
  /\ colorize \in BOOLEAN
  /\ clock = 0
  /\ out = [d \in Dests |-> <<>>]
  /\ pc = [t \in Threads |-> "idle"]
  /\ cur = [t \in Threads |-> 0]
  /\ pos = [t \in Threads |-> 0]
  /\ opt = [t \in Threads |-> NoOptions]
  /\ chain = [t \in Threads |-> <<>>]
  /\ calls = [t \in Threads |-> <<>>]
  /\ started = <<>>
  /\ returned = 0
  /\ built = 0

\* ---------------------------------------------------------------- helpers
Tagged(id, text) == [i \in 1..Len(text) |-> [id |-> id, c |-> text[i]]]

\* The identities of the calls made so far: thread and index in its history.
CallIds == UNION {{<<t, k>> : k \in 1..Len(calls[t])} : t \in Threads}

Call(id) == calls[id[1]][id[2]]

\* The call thread t is executing.
Cur(t) == calls[t][cur[t]]

\* The number of write steps that have taken the lock so far.
Turns == Cardinality({id \in CallIds : Call(id).turn > 0})

SetCall(t, f, v) == [calls EXCEPT ![t][cur[t]][f] = v]

\* ---------------------------------------------------------------- facade
\* log::set_max_level
SetMaxLevel(l) ==
  /\ maxLevel # l
  /\ maxLevel' = l
  /\ UNCHANGED <<inner, holder, poisoned, registered, colorize, clock, out,
                 pc, cur, pos, opt, chain, calls, started, returned, built>>

\* ---------------------------------------------------------------- builder
\* LoggerOptions::default()
NewDefault(t, limit) ==
  /\ pc[t] = "idle"
  /\ opt[t] = NoOptions
  /\ built < limit
  /\ built' = built + 1
  /\ opt' = [opt EXCEPT ![t] = DefaultOptions]
  /\ chain' = [chain EXCEPT ![t] = <<>>]
  /\ UNCHANGED <<inner, holder, poisoned, registered, maxLevel, colorize,
                 clock, out, pc, cur, pos, calls, started, returned>>

\* opt.set_writer(w)
SetWriter(t, w, limit) ==
  /\ pc[t] = "idle"
  /\ opt[t] # NoOptions
  /\ Len(chain[t]) < limit
  /\ opt' = [opt EXCEPT ![t] = set_writer(opt[t], w)]
  /\ chain' = [chain EXCEPT ![t] = Append(@, [f |-> "writer", v |-> w])]
  /\ UNCHANGED <<inner, holder, poisoned, registered, maxLevel, colorize,
                 clock, out, pc, cur, pos, calls, started, returned, built>>

\* opt.set_enabled(p)
SetEnabled(t, p, limit) ==
  /\ pc[t] = "idle"
  /\ opt[t] # NoOptions
  /\ Len(chain[t]) < limit
  /\ opt' = [opt EXCEPT ![t] = set_enabled(opt[t], p)]
  /\ chain' = [chain EXCEPT ![t] = Append(@, [f |-> "enabled", v |-> p])]
  /\ UNCHANGED <<inner, holder, poisoned, registered, maxLevel, colorize,
                 clock, out, pc, cur, pos, calls, started, returned, built>>

\* ---------------------------------------------------------------- start
\* opt.start() is entered.
StartCall(t) ==
  /\ pc[t] = "idle"
  /\ opt[t] # NoOptions
  /\ pc' = [pc EXCEPT ![t] = StartFlow("call")]
  /\ UNCHANGED <<inner, holder, poisoned, registered, maxLevel, colorize,
                 clock, out, cur, pos, opt, chain, calls, started, returned,
                 built>>

\* LOGGER.inner.lock().unwrap() in start.
StartLock(t) ==
  /\ pc[t] = "start_lock"
  /\ CanLock(holder)
  /\ IF LockUnwrap(poisoned) = "panic"
     THEN /\ pc' = [pc EXCEPT ![t] = "panicked"]
          /\ opt' = [opt EXCEPT ![t] = NoOptions]
          /\ chain' = [chain EXCEPT ![t] = <<>>]
          /\ UNCHANGED holder
     ELSE /\ pc' = [pc EXCEPT ![t] = "swap"]
          /\ holder' = t
          /\ UNCHANGED <<opt, chain>>
  /\ UNCHANGED <<inner, poisoned, registered, maxLevel, colorize, clock, out,
                 cur, pos, calls, started, returned, built>>

\* `*guard = self;` and the guard's drop at the end of the statement.
StartSwap(t) ==
  /\ pc[t] = "swap"
  /\ inner' = Install(opt[t], inner)
  /\ started' = Append(started, opt[t])
  /\ opt' = [opt EXCEPT ![t] = NoOptions]
  /\ chain' = [chain EXCEPT ![t] = <<>>]
  /\ holder' = GuardDropped(holder)
  /\ IF StartFlow("swap") = "return"
     THEN /\ pc' = [pc EXCEPT ![t] = "idle"]
          /\ returned' = returned + 1
     ELSE /\ pc' = [pc EXCEPT ![t] = StartFlow("swap")]
          /\ UNCHANGED returned
  /\ UNCHANGED <<poisoned, registered, maxLevel, colorize, clock, out, cur,
                 pos, calls, built>>

\* log::set_logger(&*LOGGER).unwrap()
Register(t) ==
  /\ pc[t] = "register"
  /\ IF UnwrapSetLogger(SetLogger(registered)) = "panic"
     THEN /\ pc' = [pc EXCEPT ![t] = "panicked"]
          /\ UNCHANGED <<registered, returned>>
     ELSE /\ registered' = TRUE
          /\ IF StartFlow("register") = "return"
             THEN /\ pc' = [pc EXCEPT ![t] = "idle"]
                  /\ returned' = returned + 1
             ELSE /\ pc' = [pc EXCEPT ![t] = StartFlow("register")]
                  /\ UNCHANGED returned
  /\ UNCHANGED <<inner, holder, poisoned, maxLevel, colorize, clock, out, cur,
                 pos, opt, chain, calls, started, built>>

\* ---------------------------------------------------------------- sink
\* The facade hands a call to the registered logger: Logger::enabled
\* (kind "enabled") or Logger::log (kind "log").
SinkCall(t, kind, ev, limit) ==
  /\ pc[t] = "idle"
  /\ registered
  /\ Cardinality(CallIds) < limit
  /\ calls' = [calls EXCEPT ![t] = Append(@, NewCall(kind, ev))]
  /\ cur' = [cur EXCEPT ![t] = Len(calls[t]) + 1]
  /\ pc' = [pc EXCEPT ![t] = "enabled_lock"]
  /\ UNCHANGED <<inner, holder, poisoned, registered, maxLevel, colorize,
                 clock, out, pos, opt, chain, started, returned, built>>

\* The facade hands a flush to the registered logger: Logger::flush, which
\* returns at once.
Flush(t, limit) ==
  /\ pc[t] = "idle"
  /\ registered
  /\ Cardinality(CallIds) < limit
  /\ LET sink == [inner |-> inner, holder |-> holder, poisoned |-> poisoned,
                  out |-> out]
         after == flush(sink, t)
         seen == IF holder = 0 THEN "free" ELSE "held"
     IN /\ inner' = after.inner
        /\ holder' = after.holder
        /\ poisoned' = after.poisoned
        /\ out' = after.out
        /\ calls' = [calls EXCEPT ![t] =
                       Append(@, [NewCall("flush", NoEvent)
                                    EXCEPT !.res = seen])]
  /\ UNCHANGED <<registered, maxLevel, colorize, clock, pc, cur, pos, opt,
                 chain, started, returned, built>>

\* self.inner.lock().unwrap() in enabled.
EnabledLock(t) ==
  /\ pc[t] = "enabled_lock"
  /\ CanLock(holder)
  /\ IF LockUnwrap(poisoned) = "panic"
     THEN /\ pc' = [pc EXCEPT ![t] = "panicked"]
          /\ calls' = SetCall(t, "res", "poisoned")
          /\ UNCHANGED holder
     ELSE /\ pc' = [pc EXCEPT ![t] = "pred"]
          /\ holder' = t
          /\ UNCHANGED calls
  /\ UNCHANGED <<inner, poisoned, registered, maxLevel, colorize, clock, out,
                 cur, pos, opt, chain, started, returned, built>>

\* (guard.enabled)(metadata), the guard's drop, and what the caller does
\* with the result: enabled returns it, log tests it.
EvalPred(t) ==
  /\ pc[t] = "pred"
  /\ LET r == PredOutcome(inner.enabled, Cur(t).ev, maxLevel)
         seen == [Cur(t) EXCEPT !.res = r, !.checkGen = Len(started)]
     IN /\ calls' = [calls EXCEPT ![t][cur[t]] = seen]
        /\ holder' = GuardDropped(holder)
        /\ IF r = "panic"
           THEN /\ poisoned' = TRUE
                /\ pc' = [pc EXCEPT ![t] = "panicked"]
                /\ UNCHANGED cur
           ELSE /\ UNCHANGED poisoned
                /\ IF Cur(t).kind = "log" /\ Proceeds(r)
                   THEN /\ pc' = [pc EXCEPT ![t] = "now"]
                        /\ UNCHANGED cur
                   ELSE /\ pc' = [pc EXCEPT ![t] = "idle"]
                        /\ cur' = [cur EXCEPT ![t] = 0]
  /\ UNCHANGED <<inner, registered, maxLevel, colorize, clock, out, pos, opt,
                 chain, started, returned, built>>

\* chrono::Utc::now() and the colouring of the level, with the lock free.
TakeTime(t, ts) ==
  /\ pc[t] = "now"
  /\ ts >= clock
  /\ clock' = ts
  /\ calls' = SetCall(t, "ts", ts)
  /\ pc' = [pc EXCEPT ![t] = "write_lock"]
  /\ UNCHANGED <<inner, holder, poisoned, registered, maxLevel, colorize,
                 out, cur, pos, opt, chain, started, returned, built>>

\* self.inner.lock().unwrap() in the write! of log.
WriteLock(t) ==
  /\ pc[t] = "write_lock"
  /\ CanLock(holder)
  /\ IF LockUnwrap(poisoned) = "panic"
     THEN /\ pc' = [pc EXCEPT ![t] = "panicked"]
          /\ calls' = SetCall(t, "wres", "poisoned")
          /\ UNCHANGED <<holder, pos>>
     ELSE /\ pc' = [pc EXCEPT ![t] = "write"]
          /\ holder' = t
          /\ pos' = [pos EXCEPT ![t] = 1]
          /\ calls' = [calls EXCEPT ![t][cur[t]] =
                         [@ EXCEPT !.dest = Writer(inner),
                                   !.writeGen = Len(started),
                                   !.turn = Turns + 1]]
  /\ UNCHANGED <<inner, poisoned, registered, maxLevel, colorize, clock, out,
                 cur, opt, chain, started, returned, built>>

\* One write of write_fmt on guard.writer; after the last one, or after an
\* error, the guard is dropped and the io::Result is discarded.
WritePiece(t) ==
  /\ pc[t] = "write"
  /\ LET id == <<t, cur[t]>>
         d == Writer(inner)
         ps == Pieces(Cur(t).ev, Cur(t).ts)
     IN \E o \in WriteOutcomes(d) :
          CASE o = "ok" ->
                 /\ out' = [out EXCEPT ![d] =
                              Appended(@, Tagged(id, ps[pos[t]]))]
                 /\ IF pos[t] < Len(ps)
                    THEN /\ pos' = [pos EXCEPT ![t] = @ + 1]
                         /\ UNCHANGED <<holder, pc, cur, calls>>
                    ELSE /\ pos' = [pos EXCEPT ![t] = 0]
                         /\ holder' = GuardDropped(holder)
                         /\ calls' = SetCall(t, "wres", "ok")
                         /\ pc' = [pc EXCEPT ![t] = "idle"]
                         /\ cur' = [cur EXCEPT ![t] = 0]
                 /\ UNCHANGED poisoned
            [] o = "err" ->
                 /\ pos' = [pos EXCEPT ![t] = 0]
                 /\ holder' = GuardDropped(holder)
                 /\ calls' = SetCall(t, "wres", "err")
                 /\ IF Discard(o) = "return"
                    THEN /\ pc' = [pc EXCEPT ![t] = "idle"]
                         /\ cur' = [cur EXCEPT ![t] = 0]
                         /\ UNCHANGED poisoned
                    ELSE /\ pc' = [pc EXCEPT ![t] = "panicked"]
                         /\ poisoned' = TRUE
                         /\ UNCHANGED cur
                 /\ UNCHANGED out
            [] o = "panic" ->
                 /\ pos' = [pos EXCEPT ![t] = 0]
                 /\ holder' = GuardDropped(holder)
                 /\ poisoned' = TRUE
                 /\ calls' = SetCall(t, "wres", "panic")
                 /\ pc' = [pc EXCEPT ![t] = "panicked"]
                 /\ UNCHANGED <<out, cur>>
  /\ UNCHANGED <<inner, registered, maxLevel, colorize, clock, opt, chain,
                 started, returned, built>>

\* ---------------------------------------------------------------- next
\* The steps of the program over the inputs `in`: the threads that build
\* and start configurations, the kinds of call and the events the facade
\* hands over, the level filters it is set to, the destinations and
\* predicates given to the builder, the readings of the clock, and the
\* numbers of calls, of configurations and of builder calls on each.
NextOn(in) ==
  \/ \E l \in in.filters : SetMaxLevel(l)
  \/ \E t \in in.starters : NewDefault(t, in.starts)
  \/ \E t \in Threads, w \in in.dests : SetWriter(t, w, in.setters)
  \/ \E t \in Threads, p \in in.preds : SetEnabled(t, p, in.setters)
  \/ \E t \in Threads : StartCall(t)
  \/ \E t \in Threads : StartLock(t)
  \/ \E t \in Threads : StartSwap(t)
  \/ \E t \in Threads : Register(t)
  \/ \E t \in Threads, k \in in.kinds, ev \in in.events :
        SinkCall(t, k, ev, in.calls)
  \/ \E t \in Threads : Flush(t, in.calls)
  \/ \E t \in Threads : EnabledLock(t)
  \/ \E t \in Threads : EvalPred(t)
  \/ \E t \in Threads, ts \in in.times : TakeTime(t, ts)
  \/ \E t \in Threads : WriteLock(t)
  \/ \E t \in Threads : WritePiece(t)

\* Events of two levels: a padded name (WARN) and the least severe (TRACE).
SomeEvents == {ev \in Events : ev.level \in {2, 5}}

\* The process writes colours (a terminal): the initial states of the
\* specifications that do not look at the text of the lines.
InitTerminal == Init /\ colorize

\* One activation, as the contract of start() demands, then concurrent
\* calls on the sink with destinations and predicates that do not fail,
\* at an earlier and a later reading of the clock.
\* Threads are interchangeable: the one that activates is thread 1.
Next ==
  NextOn([starters |-> {1}, kinds |-> {"log"}, events |-> SomeEvents,
          filters |-> {3}, dests |-> {"buf"}, preds |-> {"always"},
          times |-> {0, 1}, calls |-> MaxEmits, starts |-> 1,
          setters |-> 2])
Spec == InitTerminal /\ [][Next]_vars

\* The same with a destination whose writes can fail.
NextFaults ==
  NextOn([starters |-> {1}, kinds |-> {"log"}, events |-> SomeEvents,
          filters |-> {3}, dests |-> {"full"}, preds |-> {"always"},
          times |-> {0}, calls |-> MaxEmits, starts |-> 1, setters |-> 2])
SpecFaults == InitTerminal /\ [][NextFaults]_vars

\* Repeated activation, against the contract, around one call on the sink
\* with an event the default predicate rejects.
NextRestart ==
  NextOn([starters |-> Threads, kinds |-> Kinds,
          events |-> {ev \in Events : ev.level = 5}, filters |-> {3},
          dests |-> {"buf"}, preds |-> {"always"}, times |-> {0},
          calls |-> 1, starts |-> MaxStarts, setters |-> 2])
SpecRestart == InitTerminal /\ [][NextRestart]_vars

\* Two activations and two calls with a predicate and a destination that
\* can panic, on one event.
NextPoison ==
  NextOn([starters |-> Threads, kinds |-> Kinds,
          events |-> {ev \in Events : ev.level = 5}, filters |-> {5},
          dests |-> {"broken"}, preds |-> {"partial"}, times |-> {0},
          calls |-> 2, starts |-> 2, setters |-> 2])
SpecPoison == InitTerminal /\ [][NextPoison]_vars

\* One activation and one call, over every event, level filter,
\* destination and predicate, with and without colours.
NextInputs ==
  NextOn([starters |-> {1}, kinds |-> Kinds, events |-> Events,
          filters |-> LevelFilters, dests |-> Dests, preds |-> Preds,
          times |-> 0..MaxClock, calls |-> 1, starts |-> 1,
          setters |-> MaxSetters])
SpecInputs == Init /\ [][NextInputs]_vars

\* One activation, then three log calls of two events, so that a thread can
\* log twice with a line of another thread in between.
NextOrder ==
  NextOn([starters |-> {1}, kinds |-> {"log"}, events |-> SomeEvents,
          filters |-> {3}, dests |-> {"buf"}, preds |-> {"always"},
          times |-> {0}, calls |-> 3, starts |-> 1, setters |-> 1])
SpecOrder == InitTerminal /\ [][NextOrder]_vars

\* Threads that call the sink while one thread activates, also a second
\* time, with a predicate and a destination that return.  Every thread
\* inside start(), enabled() or log() is scheduled again: a step it can
\* take for good is eventually taken.
NextLive ==
  NextOn([starters |-> {1}, kinds |-> Kinds,
          events |-> {ev \in Events : ev.level = 2}, filters |-> {3},
          dests |-> {"buf"}, preds |-> {"always"}, times |-> {0},
          calls |-> 2, starts |-> 2, setters |-> 1])
\* A step of thread t inside start(), enabled() or log().
Step(t) ==
  \/ StartLock(t)
  \/ StartSwap(t)
  \/ Register(t)
  \/ EnabledLock(t)
  \/ EvalPred(t)
  \/ TakeTime(t, 0)
  \/ WriteLock(t)
  \/ WritePiece(t)
Scheduling == \A t \in Threads : WF_vars(Step(t))
SpecLive == InitTerminal /\ [][NextLive]_vars /\ Scheduling

\* ---------------------------------------------------------------- claims
\* The characters a call has put on destination d, in order.
BytesOf(id, d) ==
  LET sel == SelectSeq(out[d], LAMBDA e : e.id = id)
  IN [i \in 1..Len(sel) |-> sel[i].c]

\* Every character a call has put on any destination.
Wrote(id) == \E d \in Dests : \E i \in 1..Len(out[d]) : out[d][i].id = id

\* A text without the ANSI escape sequences.
Plain(text) == SelectSeq(text, LAMBDA c : c \notin Escapes)

Spaces(n) == [i \in 1..n |-> " "]

\* The layout `[<timestamp>] <LEVEL> [<target>] - <message>` and the line
\* terminator, with the level name filled up to 5 characters.
Layout(ev, ts) ==
  LET name == LevelName(ev.level)
      fill == IF Len(name) < 5 THEN Spaces(5 - Len(name)) ELSE <<>>
  IN <<"[">> \o TimeText(ts) \o <<"]", " ">> \o name \o fill \o <<" ", "[">>
     \o ev.target \o <<"]", " ", "-", " ">> \o ev.msg \o <<"\n">>

IsPrefix(a, b) == Len(a) <= Len(b) /\ a = SubSeq(b, 1, Len(a))

\* C1: a log call whose event the predicate rejects writes nothing and has
\* no other effect: the step that evaluates the predicate to false leaves
\* the destinations, the configuration, the poison flag, the registration,
\* the level filter and every other thread as they were, releases the lock
\* and returns; no character of any destination ever comes from that call.
C1_RejectStep(t) ==
  (pc[t] = "pred" /\ Cur(t).kind = "log"
     /\ calls'[t][cur[t]].res = "false")
  => /\ out' = out
     /\ inner' = inner
     /\ poisoned' = poisoned
     /\ registered' = registered
     /\ maxLevel' = maxLevel
     /\ holder' = 0
     /\ pc' = [pc EXCEPT ![t] = "idle"]
     /\ opt' = opt
     /\ started' = started

C1_RejectedEmitSilent ==
  /\ [][\A t \in Threads : C1_RejectStep(t)]_vars
  /\ [](\A id \in CallIds :
          (Call(id).kind = "log" /\ Call(id).res = "false")
          => /\ ~Wrote(id)
             /\ Call(id).wres = "none"
             /\ cur[id[1]] # id[2])

\* C1 witness: a rejected log call has returned while another thread's call
\* was accepted and written.
C1_Witness ==
  \E id \in CallIds, id2 \in CallIds :
    /\ Call(id).kind = "log" /\ Call(id).res = "false"
    /\ cur[id[1]] # id[2]
    /\ Call(id2).wres = "ok"
    /\ id2[1] # id[1]

\* C2: a log call whose event is accepted and whose write the destination
\* accepts has put exactly one line on that destination and nothing
\* elsewhere: without the colour sequences it is
\* `[<timestamp>] <LEVEL> [<target>] - <message>` and a line terminator, the
\* level name filled to 5 characters, target and message verbatim. While the
\* write is under way, or when the destination failed, the characters are a
\* prefix of that line.
C2_OneLinePerAcceptedEmit ==
  \A id \in CallIds :
    LET c == Call(id)
    IN /\ c.wres = "ok"
            => /\ c.kind = "log" /\ c.res = "true"
               /\ Plain(BytesOf(id, c.dest)) = Layout(c.ev, c.ts)
               /\ \A d \in Dests \ {c.dest} : BytesOf(id, d) = <<>>
       /\ (c.res = "true" /\ c.kind = "log" /\ c.dest # "none")
            => IsPrefix(Plain(BytesOf(id, c.dest)), Layout(c.ev, c.ts))
       /\ c.kind = "enabled" => ~Wrote(id)

\* C2 witness: a line with a level name shorter than 5 characters has been
\* written with colours.
C2_Witness ==
  \E id \in CallIds :
    /\ Call(id).wres = "ok"
    /\ Len(LevelName(Call(id).ev.level)) < 5
    /\ colorize

\* C3: once start() has returned, the configuration a thread finds under the
\* lock is the one moved in by the latest start(): an enablement check
\* returns what that configuration's predicate says, and a write step puts
\* its characters on that configuration's destination and on no other.
C3_UseStep(t) ==
  LET cfg == started[Len(started)]
  IN /\ (pc[t] = "pred" /\ pc'[t] # "pred" /\ returned >= 1)
          => /\ Len(started) >= 1
             /\ calls'[t][cur[t]].res
                  = PredOutcome(cfg.enabled, Cur(t).ev, maxLevel)
     /\ (pc[t] = "write" /\ pos'[t] # pos[t] /\ returned >= 1)
          => /\ Len(started) >= 1
             /\ Cur(t).dest = cfg.writer
             /\ \A d \in Dests \ {cfg.writer} : out'[d] = out[d]
             /\ IsPrefix(out[cfg.writer], out'[cfg.writer])

C3_ActivationObserved == [][\A t \in Threads : C3_UseStep(t)]_vars

\* C3 witness: a thread that did not activate has written a line on the
\* destination of an activated configuration that is not the default one.
C3_Witness ==
  \E id \in CallIds :
    /\ Call(id).wres = "ok"
    /\ Call(id).dest # DefaultOptions.writer
    /\ pc[id[1]] = "idle"
    /\ \E t \in Threads : t # id[1] /\ returned = 1 /\ opt[t] = NoOptions
    /\ built = 1 /\ chain[id[1]] = <<>>
    /\ started[1].enabled # DefaultOptions.enabled

\* The line a log call hands to its destination.
Line(id) == Flatten(Pieces(Call(id).ev, Call(id).ts))

\* A call is inside its write step.
Writing(id) == cur[id[1]] = id[2] /\ pc[id[1]] = "write"

\* C4: the characters of one line are contiguous on the destination, even
\* though a line reaches it as several writes: between two characters of one
\* call there is no character of another call (the destination changes
\* owner one time less than it has owners), the characters of a call
\* are its whole line, and only the call inside its write step, whose
\* characters are then the last on the destination, has a proper prefix.
C4_NoInterleaving ==
  \A d \in Dests :
    /\ out[d] # <<>> =>
         Cardinality({i \in 1..(Len(out[d]) - 1) :
                        out[d][i].id # out[d][i + 1].id}) + 1
           = Cardinality({out[d][i].id : i \in 1..Len(out[d])})
    /\ \A id \in CallIds :
         LET bytes == BytesOf(id, d)
         IN bytes # <<>> =>
              \/ bytes = Line(id) /\ ~Writing(id)
              \/ /\ Writing(id)
                 /\ IsPrefix(bytes, Line(id))
                 /\ out[d][Len(out[d])].id = id

\* C4 witness: one thread is in the middle of its line while another thread
\* has taken its timestamp and waits for the lock, and the destination
\* already holds characters of the first.
C4_Witness ==
  \E t \in Threads, u \in Threads :
    /\ t # u
    /\ pc[t] = "write" /\ pos[t] >= 3
    /\ pc[u] = "write_lock"
    /\ out[inner.writer] # <<>>

\* C5: when the destination's write returns an error, log returns normally:
\* that step frees the lock without poisoning it, leaves the configuration
\* in place and the thread goes on; the configuration that failed is still
\* the installed one afterwards.
C5_ErrStep(t) ==
  (pc[t] = "write" /\ calls'[t][cur[t]].wres = "err")
  => /\ pc' = [pc EXCEPT ![t] = "idle"]
     /\ holder' = 0
     /\ poisoned' = FALSE
     /\ inner' = inner
     /\ registered' = registered

C5_WriteFailureDiscarded ==
  /\ [][\A t \in Threads : C5_ErrStep(t)]_vars
  /\ [](\A id \in CallIds :
          Call(id).wres = "err"
          => /\ pc[id[1]] # "panicked" \/ cur[id[1]] # id[2]
             /\ inner.writer = Call(id).dest)

\* C5 witness: a write failed after part of the line was written, the caller
\* went on, and a later call of the same thread wrote a whole line on the
\* same destination.
C5_Witness ==
  \E id \in CallIds, id2 \in CallIds :
    /\ Call(id).wres = "err" /\ Wrote(id)
    /\ id2[1] = id[1]
    /\ id2[2] > id[2]
    /\ Call(id2).wres = "ok"
    /\ Call(id2).dest = Call(id).dest

\* C6: every start() makes one registration attempt; the first attempt in
\* the process succeeds and start() returns, every later one is rejected by
\* the facade and start() panics instead of returning, so that at most one
\* start() ever returns.
C6_RegisterStep(t) ==
  (pc[t] = "register" /\ pc'[t] # "register")
  => IF registered
     THEN pc'[t] = "panicked" /\ returned' = returned /\ registered'
     ELSE pc'[t] = "idle" /\ returned' = 1 /\ registered'

C6_SecondStartFatal ==
  /\ [][\A t \in Threads : C6_RegisterStep(t)]_vars
  /\ [](returned <= 1 /\ (registered <=> returned = 1))

\* C6 witness: a second start() has moved its configuration in and panicked
\* in the registration.
C6_Witness ==
  /\ Len(started) = 2
  /\ returned = 1
  /\ \E t \in Threads : pc[t] = "panicked"
  /\ \A t \in Threads : pc[t] \in {"idle", "panicked"}
  /\ calls = [t \in Threads |-> <<>>]

\* The default predicate's answer for a level under the current filter.
DefaultAdmits(l) ==
  PredOutcome(DefaultOptions.enabled, [level |-> l], maxLevel) = "true"

\* C7: the default predicate admits a level exactly when it is at most the
\* facade's maximum level, so that admitting a level implies admitting every
\* more severe (lower-numbered) one; a check made under the default
\* predicate returns just that for the event's level.
C7_CheckStep(t) ==
  (pc[t] = "pred" /\ pc'[t] # "pred"
     /\ inner.enabled = DefaultOptions.enabled)
  => calls'[t][cur[t]].res
       = (IF Cur(t).ev.level <= maxLevel THEN "true" ELSE "false")

C7_DefaultPredicateMonotone ==
  /\ [](\A l \in Levels : DefaultAdmits(l) <=> l <= maxLevel)
  /\ [](\A l1 \in Levels, l2 \in Levels :
          (l1 < l2 /\ DefaultAdmits(l2)) => DefaultAdmits(l1))
  /\ [][\A t \in Threads : C7_CheckStep(t)]_vars

\* C7 witness: under the default predicate and the filter Info, a Debug
\* event has been rejected while Info is admitted.
C7_Witness ==
  /\ maxLevel = 3
  /\ inner.enabled = DefaultOptions.enabled
  /\ DefaultAdmits(3)
  /\ \E id \in CallIds :
       /\ Call(id).ev.level = 4
       /\ Call(id).res = "false"

\* C8: the guarded configuration is always one whole LoggerOptions value:
\* the default one until the first swap, and afterwards the value the
\* latest start() moved in, predicate and destination together.
C8_WholeConfiguration ==
  /\ inner = IF started = <<>> THEN DefaultOptions
             ELSE started[Len(started)]
  /\ \A t \in Threads :
       pc[t] \in {"pred", "write"}
       => \E c \in {DefaultOptions} \cup {started[i] : i \in 1..Len(started)} :
            inner.writer = c.writer /\ inner.enabled = c.enabled

\* C8 witness: a thread evaluates the predicate under the lock after two
\* configurations differing in both fields have been moved in.
C8_Witness ==
  /\ Len(started) = 2
  /\ started[1].writer # started[2].writer
  /\ started[1].enabled # started[2].enabled
  /\ started[2].writer # DefaultOptions.writer
  /\ \E t \in Threads : pc[t] = "pred"

\* The value of the last builder call on field f in a chain, or the default.
LastSet(ch, f, dflt) ==
  LET idx == {i \in 1..Len(ch) : ch[i].f = f}
  IN IF idx = {} THEN dflt
     ELSE ch[CHOOSE i \in idx : \A j \in idx : j <= i].v

\* C9: builder calls overwrite: the value being built holds, for each field,
\* the argument of the last call on that field (the default if there was
\* none), and setting a field twice in a row equals setting it once with
\* the second value.
C9_BuilderOverwrites ==
  \A t \in Threads :
    opt[t] # NoOptions =>
      /\ opt[t].writer = LastSet(chain[t], "writer", "stderr")
      /\ opt[t].enabled = LastSet(chain[t], "enabled", "maxlevel")
      /\ \A a \in Dests, b \in Dests :
           set_writer(set_writer(opt[t], a), b) = set_writer(opt[t], b)
      /\ \A a \in Preds, b \in Preds :
           set_enabled(set_enabled(opt[t], a), b) = set_enabled(opt[t], b)

\* C9 witness: set_writer has been called twice with different destinations,
\* the first not the default, and the value holds the second.
C9_Witness ==
  \E t \in Threads :
    /\ Len(chain[t]) = 2
    /\ chain[t][1].f = "writer" /\ chain[t][2].f = "writer"
    /\ chain[t][1].v # "stderr"
    /\ chain[t][1].v # chain[t][2].v
    /\ opt[t].writer = chain[t][2].v

\* C10: a panic of the predicate or of the destination under the lock
\* poisons it, the poison stays, and from then on every acquisition, by
\* enabled, by the write step of log or by start(), panics without taking
\* the lock or changing the configuration, the destinations or the
\* registration.
C10_Step(t) ==
  /\ (pc[t] \in {"pred", "write"} /\ pc'[t] = "panicked") => poisoned'
  /\ (poisoned /\ pc[t] \in {"enabled_lock", "write_lock", "start_lock"}
        /\ pc'[t] # pc[t])
       => /\ pc'[t] = "panicked"
          /\ holder' = holder
          /\ inner' = inner
          /\ out' = out
          /\ started' = started
          /\ registered' = registered

C10_PoisonPropagates ==
  /\ [][poisoned => poisoned']_vars
  /\ [][\A t \in Threads : C10_Step(t)]_vars
  /\ [](poisoned =>
          /\ holder = 0
          /\ \A t \in Threads : pc[t] \notin {"pred", "write", "swap"})

\* C10 witness: the destination panicked in one thread's write step and the
\* other thread, past its enablement check, panicked acquiring the lock for
\* its write.
C10_Witness ==
  /\ poisoned
  /\ \E id \in CallIds, id2 \in CallIds :
       /\ Call(id).wres = "panic"
       /\ Call(id2).res = "true" /\ Call(id2).wres = "poisoned"
       /\ pc[id2[1]] = "panicked"

\* A call has returned to its caller.
Returned(id) == cur[id[1]] # id[2]

\* C11: flush is a no-op: the step writes nothing, neither takes nor needs
\* the lock, and leaves the configuration, the poison flag, the registration
\* and every thread's position as they were; nothing is left for it to do,
\* since every accepted log call that has returned has its whole line on
\* its destination already.
C11_FlushStep(t) ==
  (Len(calls'[t]) > Len(calls[t])
     /\ calls'[t][Len(calls'[t])].kind = "flush")
  => /\ out' = out
     /\ inner' = inner
     /\ holder' = holder
     /\ poisoned' = poisoned
     /\ registered' = registered
     /\ pc' = pc
     /\ cur' = cur

C11_FlushNoOp ==
  /\ [][\A t \in Threads : C11_FlushStep(t)]_vars
  /\ [](\A id \in CallIds :
          (Call(id).kind = "log" /\ Call(id).res = "true" /\ Returned(id))
          => /\ Call(id).wres = "ok"
             /\ BytesOf(id, Call(id).dest) = Line(id))

\* C11 witness: a flush ran while another thread held the lock, and that
\* thread is in the middle of its line.
C11_Witness ==
  \E id \in CallIds, t \in Threads :
    /\ Call(id).kind = "flush" /\ Call(id).res = "held"
    /\ t # id[1] /\ pc[t] = "write" /\ holder = t /\ pos[t] >= 3
    /\ out[inner.writer] # <<>>

\* C12: the two fields are replaced independently: a set_writer step
\* leaves the predicate of the value being built as it was, a set_enabled
\* step leaves its destination as it was, so the two calls commute; a
\* builder step touches neither the guarded configuration nor anything else
\* of the sink, and the guarded configuration changes in the swap of
\* start() only.
C12_BuilderStep(t) ==
  Len(chain'[t]) = Len(chain[t]) + 1
  => LET c == chain'[t][Len(chain'[t])]
     IN /\ c.f = "writer"
             => opt'[t].writer = c.v /\ opt'[t].enabled = opt[t].enabled
        /\ c.f = "enabled"
             => opt'[t].enabled = c.v /\ opt'[t].writer = opt[t].writer
        /\ \A u \in Threads \ {t} : opt'[u] = opt[u]
        /\ inner' = inner
        /\ holder' = holder
        /\ poisoned' = poisoned
        /\ registered' = registered
        /\ out' = out

C12_FieldsIndependent ==
  /\ [][\A t \in Threads : C12_BuilderStep(t)]_vars
  /\ [](\A t \in Threads :
          opt[t] # NoOptions
          => \A w \in Dests, p \in Preds :
               set_enabled(set_writer(opt[t], w), p)
                 = set_writer(set_enabled(opt[t], p), w))
  /\ [][inner' # inner
         => \E t \in Threads : pc[t] = "swap" /\ pc'[t] # "swap"]_vars

\* C12 witness: with a configuration other than the default one installed,
\* a thread has built a different value by setting the destination and then
\* the predicate.
C12_Witness ==
  /\ started # <<>>
  /\ inner # DefaultOptions
  /\ \E t \in Threads :
       /\ Len(chain[t]) = 2
       /\ chain[t][1].f = "writer" /\ chain[t][2].f = "enabled"
       /\ opt[t].writer # DefaultOptions.writer
       /\ opt[t] # inner

\* C13: a thread holds the lock exactly while it evaluates the predicate,
\* writes its line or swaps the configuration: not between the check of log
\* and its write step (while it reads the clock or waits for the lock
\* again), not while it waits for the lock, and not once enabled, log or
\* start() has returned or panicked; the lock passes from one thread to
\* another only through the free state.
C13_Held == {"pred", "write", "swap"}

C13_LockDiscipline ==
  /\ [](\A t \in Threads :
          /\ holder = t <=> pc[t] \in C13_Held
          /\ pc[t] \in {"now", "write_lock"} => holder # t
          /\ pc[t] \in {"enabled_lock", "write_lock", "start_lock"}
               => holder # t
          /\ pc[t] \in {"idle", "register", "panicked"} => holder # t)
  /\ [][holder' # holder => (holder = 0 \/ holder' = 0)]_vars

\* C13 witness: a thread between its check and its write step waits for
\* the lock while another thread holds it in the swap of start().
C13_Witness ==
  \E t \in Threads, u \in Threads :
    /\ pc[t] = "write_lock" /\ Cur(t).res = "true"
    /\ pc[u] = "swap" /\ holder = u

\* The configuration under the lock after g swaps.
ConfAt(g) == IF g = 0 THEN DefaultOptions ELSE started[g]

\* C14 as stated: every line was admitted by the predicate of the
\* configuration that owns the destination it is written to: the
\* configuration of the write step is the one of the check.
C14_Original ==
  \A id \in CallIds :
    Call(id).dest # "none"
    => ConfAt(Call(id).checkGen) = ConfAt(Call(id).writeGen)

\* C14, amended: the check and the write of log are two lock acquisitions.
\* The check answers with the predicate of the configuration installed
\* when it holds the lock, and the line goes, whole, to the destination of
\* the configuration installed when the write step took the lock, which
\* cannot change during the write.  The two are the same configuration as
\* long as start() has swapped at most once; a later swap between the check
\* and the write sends the line to the new configuration's destination.
C14_Step(t) ==
  /\ (pc[t] = "pred" /\ pc'[t] # "pred")
       => /\ inner = ConfAt(Len(started))
          /\ calls'[t][cur[t]].checkGen = Len(started)
          /\ calls'[t][cur[t]].res
               = PredOutcome(ConfAt(Len(started)).enabled, Cur(t).ev, maxLevel)
  /\ (pc[t] = "write_lock" /\ pc'[t] = "write")
       => /\ calls'[t][cur[t]].writeGen = Len(started)
          /\ calls'[t][cur[t]].dest = ConfAt(Len(started)).writer
  /\ pc[t] = "write"
       => /\ started' = started
          /\ \A d \in Dests \ {ConfAt(Cur(t).writeGen).writer} :
               out'[d] = out[d]

C14_CheckThenWrite ==
  /\ [][\A t \in Threads : C14_Step(t)]_vars
  /\ [](\A id \in CallIds :
          Call(id).dest # "none"
          => /\ Call(id).res = "true"
             /\ Call(id).checkGen <= Call(id).writeGen
             /\ Call(id).dest = ConfAt(Call(id).writeGen).writer
             /\ \A d \in Dests \ {Call(id).dest} : BytesOf(id, d) = <<>>
             /\ Len(started) <= 1
                  => Call(id).checkGen = Call(id).writeGen)

\* C14 witness: a line admitted by the first configuration's predicate has
\* been written to the destination of a second configuration, installed
\* between the check and the write, whose predicate rejects the event.
C14_Witness ==
  \E id \in CallIds :
    /\ Call(id).wres = "ok"
    /\ Call(id).checkGen = 1 /\ Call(id).writeGen = 2
    /\ started[1].writer # started[2].writer
    /\ BytesOf(id, started[2].writer) = Line(id)
    /\ PredOutcome(started[2].enabled, Call(id).ev, maxLevel) = "false"

\* C15: a second start() overwrites the guarded configuration before the
\* facade rejects its registration.  The rejected registration panics with
\* the lock free and leaves it unpoisoned and the configuration of the
\* latest swap, not the first one, installed; from then on the other
\* threads' checks and writes use that configuration.
C15_Step(t) ==
  /\ (pc[t] = "register" /\ pc'[t] = "panicked")
       => /\ Len(started) >= 2
          /\ inner = started[Len(started)]
          /\ inner' = inner
          /\ holder # t /\ holder' = holder
          /\ ~poisoned /\ ~poisoned'
  /\ (pc[t] = "pred" /\ pc'[t] # "pred"
        /\ \E u \in Threads : pc[u] = "panicked")
       => calls'[t][cur[t]].res
            = PredOutcome(started[Len(started)].enabled, Cur(t).ev, maxLevel)
  /\ (pc[t] = "write" /\ \E u \in Threads : pc[u] = "panicked")
       => \A d \in Dests \ {started[Len(started)].writer} : out'[d] = out[d]

C15_SecondStartOverwrites ==
  /\ [][\A t \in Threads : C15_Step(t)]_vars
  /\ []((\E t \in Threads : pc[t] = "panicked")
          => /\ Len(started) >= 2
             /\ inner = started[Len(started)]
             /\ ~poisoned
             /\ \A t \in Threads : pc[t] = "panicked" => holder # t)

\* C15 witness: the second start() has panicked, its configuration differs
\* from the first in both fields, and another thread has since had its
\* event checked and its line written through the second configuration.
C15_Witness ==
  \E t \in Threads, id \in CallIds :
    /\ pc[t] = "panicked" /\ id[1] # t
    /\ Len(started) = 2
    /\ started[1].writer # started[2].writer
    /\ started[1].enabled # started[2].enabled
    /\ inner = started[2]
    /\ Call(id).checkGen = 2 /\ Call(id).wres = "ok"
    /\ BytesOf(id, started[2].writer) = Line(id)

\* A call whose check has come to an answer.
Checked(id) == Call(id).res \in {"true", "false", "panic"}

\* C16: start() installs the configuration before it registers the sink.
\* In a process that activates once, the sink is registered only with the
\* activated configuration installed, so that every check of a dispatched
\* event is made, and every line written, after the swap and with the
\* activated configuration: with the default one (stderr, level filter)
\* only if that is the one that was activated.
C16_Step(t) ==
  (pc[t] \in {"pred", "write"} /\ pc'[t] # pc[t])
  => /\ started # <<>>
     /\ inner = started[1]
     /\ inner = DefaultOptions => started[1] = DefaultOptions

C16_InstallBeforeRegister ==
  /\ [](registered => (started # <<>> /\ inner = started[1]))
  /\ [][\A t \in Threads : C16_Step(t)]_vars
  /\ [](\A id \in CallIds :
          /\ Checked(id) => Call(id).checkGen >= 1
          /\ Call(id).dest # "none"
               => /\ Call(id).writeGen >= 1
                  /\ Call(id).dest = started[1].writer)
  /\ [](\A d \in Dests :
          out[d] # <<>> => (started # <<>> /\ d = started[1].writer))

\* C16 witness: the activated configuration differs from the default one
\* in both fields, and an event the default predicate rejects has been
\* admitted and written to the activated destination, none to stderr.
C16_Witness ==
  \E id \in CallIds :
    /\ returned = 1
    /\ started[1].writer # DefaultOptions.writer
    /\ started[1].enabled # DefaultOptions.enabled
    /\ Call(id).wres = "ok"
    /\ PredOutcome(DefaultOptions.enabled, Call(id).ev, maxLevel) = "false"
    /\ out[DefaultOptions.writer] = <<>>
    /\ out[started[1].writer] # <<>>

\* Where the first character of a call stands on a destination.
FirstPos(id, d) ==
  CHOOSE i \in 1..Len(out[d]) :
    out[d][i].id = id /\ \A j \in 1..(i - 1) : out[d][j].id # id

\* The calls with characters on a destination.
OnDest(d) == {out[d][i].id : i \in 1..Len(out[d])}

\* C17: the lines of a destination stand in the order in which their write
\* steps took the lock, whatever their timestamps: of two calls with
\* characters on one destination, the one that took the lock first comes
\* first, and every write step takes the next turn.  The timestamp is
\* read before the lock is taken and does not decide the order.
C17_LockOrder ==
  /\ [](\A d \in Dests : \A a \in OnDest(d), b \in OnDest(d) :
          FirstPos(a, d) < FirstPos(b, d) <=> Call(a).turn < Call(b).turn)
  /\ [](\A id \in CallIds :
          /\ Wrote(id) => Call(id).turn >= 1
          /\ Call(id).turn >= 1 => Call(id).res = "true")
  /\ [][\A t \in Threads :
          (pc[t] = "write_lock" /\ pc'[t] = "write")
          => /\ calls'[t][cur[t]].turn = Turns + 1
             /\ \A id \in CallIds : Call(id).turn <= Turns
             /\ clock >= Cur(t).ts]_vars

\* C17 witness: of two whole lines on one destination, written by two
\* threads, the first carries the later timestamp.
C17_Witness ==
  \E a \in CallIds, b \in CallIds :
    /\ a[1] # b[1]
    /\ Call(a).wres = "ok" /\ Call(b).wres = "ok"
    /\ Call(a).dest = Call(b).dest
    /\ FirstPos(a, Call(a).dest) < FirstPos(b, Call(b).dest)
    /\ Call(a).ts > Call(b).ts

\* The positions of a thread inside enabled() or log(), and inside start().
InSink == {"enabled_lock", "pred", "now", "write_lock", "write"}
InStart == {"start_lock", "swap", "register"}

\* C18: with a predicate and a destination that return, a thread inside
\* enabled(), log() or start() eventually leaves it, however the threads
\* that call the sink and the thread that activates interleave: no thread
\* waits for the lock for ever.  A call of enabled() or log() is left by
\* returning, start() by returning or by the panic of its registration.
C18_CallsReturn ==
  /\ \A t \in Threads :
       (pc[t] \in InSink \cup InStart) ~> (pc[t] \notin InSink \cup InStart)
  /\ [][\A t \in Threads :
          /\ (pc[t] \in InSink /\ pc'[t] \notin InSink)
               => (pc'[t] = "idle" /\ cur'[t] = 0)
          /\ (pc[t] \in InStart /\ pc'[t] \notin InStart)
               => pc'[t] \in {"idle", "panicked"}]_vars

\* C18 witness: a thread waits for the lock for its write step while a
\* second start() holds it in the swap.
C18_Witness ==
  \E t \in Threads, u \in Threads :
    /\ pc[t] = "write_lock"
    /\ pc[u] = "swap" /\ holder = u
    /\ registered

\* The number of line terminators in a text.
Terminators(text) == Len(SelectSeq(text, LAMBDA c : c = "\n"))

\* The accepted log calls of a thread that have returned after writing
\* to destination d.
Emitted(t, d) ==
  {k \in 1..Len(calls[t]) :
     calls[t][k].wres = "ok" /\ calls[t][k].dest = d}

\* C19: the lines of one thread stand on a destination that does not fail
\* in the order of the thread's calls, whatever other threads write in
\* between, and each of them is there whole, in one piece, and ends with
\* the one line terminator log() appends after the message.
C19_PerThreadOrder ==
  \A t \in Threads, d \in Dests :
    /\ \A i \in Emitted(t, d), j \in Emitted(t, d) :
         i < j => FirstPos(<<t, i>>, d) < FirstPos(<<t, j>>, d)
    /\ \A k \in Emitted(t, d) :
         LET id == <<t, k>>
             from == FirstPos(id, d)
             bytes == BytesOf(id, d)
         IN /\ id \in OnDest(d)
            /\ Plain(bytes) = Layout(Call(id).ev, Call(id).ts)
            /\ bytes[Len(bytes)] = "\n"
            /\ Terminators(bytes)
                 = 1 + Terminators(Call(id).ev.target)
                     + Terminators(Call(id).ev.msg)
            /\ from + Len(bytes) - 1 <= Len(out[d])
            /\ \A n \in 1..Len(bytes) :
                 out[d][from + n - 1] = [id |-> id, c |-> bytes[n]]

\* C19 witness: a thread has logged two different events, another thread
\* has written a line between the two, and the three lines are whole.
C19_Witness ==
  \E t \in Threads, u \in Threads, d \in Dests :
    /\ t # u
    /\ Emitted(t, d) = {1, 2}
    /\ Emitted(u, d) = {1}
    /\ calls[t][1].ev # calls[t][2].ev
    /\ FirstPos(<<t, 1>>, d) < FirstPos(<<u, 1>>, d)
    /\ FirstPos(<<u, 1>>, d) < FirstPos(<<t, 2>>, d)

TypeOK ==
  /\ holder \in 0..NThreads
  /\ poisoned \in BOOLEAN
  /\ maxLevel \in LevelFilters

====
